---- MODULE Spec2Model ----
(***************************************************************************)
(* A model of the retrieval-augmented question answering pipeline:         *)
(*   src/src/graph.py            the five-stage graph and its entry point  *)
(*   src/src/nodes/*.py          the stages                                *)
(*   src/src/utils/llm_utils.py  the language-model client set-up          *)
(*   src/src/main.py             the batch entry                           *)
(*   src/src/streamlit_app.py    the interactive entry                     *)
(*                                                                         *)
(* Texts, paths and URLs are sequences of one-character strings.  A Python *)
(* optional value is None (the empty tuple) or Some(v) (a 1-tuple).        *)
(***************************************************************************)
EXTENDS Integers, Sequences, FiniteSets, TLC

\* ------------------------------------------------------------------ bounds

\* Number of pipeline runs that may share the on-disk index.
NRuns == 2
\* Explicit chunk_size / chunk_overlap arguments range over -1..MaxChunk.
MaxChunk == 3
\* Explicit max_answer_length arguments range over -1..MaxSentences.
MaxSentences == 2
\* Number of script executions of the interactive entry.
MaxScriptRuns == 3
\* Longest document text given to split_documents on its own.
MaxTextLen == 5

\* --------------------------------------------------------- program constants

\* graph.py:67  k=4
K == 4
\* graph.py:140 / text_splitter.py:30 / main.py:77  default chunk size
DefaultChunkSize == 500
\* graph.py:142 / text_splitter.py:33 / main.py:78  default chunk overlap
DefaultChunkOverlap == 50

\* ------------------------------------------------------------ Python values

None == << >>
Some(v) == << v >>
IsNone(o) == o = << >>
Val(o) == o[1]

\* Python truthiness of an optional int: None and 0 are falsy.
TruthyInt(o) == ~IsNone(o) /\ Val(o) # 0
\* Python truthiness of an optional str: None and "" are falsy.
TruthyStr(o) == ~IsNone(o) /\ Len(Val(o)) > 0

Digits == << "0", "1", "2", "3", "4", "5", "6", "7", "8", "9" >>

RECURSIVE NatStr(_)
\* str(n) for n >= 0: the decimal digits of n.
NatStr(n) ==
    IF n < 10 THEN << Digits[n + 1] >>
    ELSE NatStr(n \div 10) \o << Digits[(n % 10) + 1] >>

\* str(n) / f"{n}" for an int.
IntStr(n) == IF n < 0 THEN << "-" >> \o NatStr(-n) ELSE NatStr(n)

DigitVal(c) == CHOOSE d \in 0..9 : Digits[d + 1] = c

RECURSIVE NatOf(_)
NatOf(s) ==
    IF Len(s) = 0 THEN 0
    ELSE 10 * NatOf(SubSeq(s, 1, Len(s) - 1)) + DigitVal(s[Len(s)])

\* int(s) for a well-formed decimal string.
IntOf(s) == IF s[1] = "-" THEN -NatOf(Tail(s)) ELSE NatOf(s)

RECURSIVE Flatten(_)
\* "".join(parts)
Flatten(parts) ==
    IF Len(parts) = 0 THEN << >> ELSE Head(parts) \o Flatten(Tail(parts))

RECURSIVE JoinWith(_, _)
\* sep.join(parts)
JoinWith(parts, sep) ==
    IF Len(parts) = 0 THEN << >>
    ELSE IF Len(parts) = 1 THEN parts[1]
    ELSE parts[1] \o sep \o JoinWith(Tail(parts), sep)

IsSpace(c) == c \in {" ", "\n"}

RECURSIVE LStrip(_)
LStrip(t) == IF Len(t) > 0 /\ IsSpace(t[1]) THEN LStrip(Tail(t)) ELSE t

RECURSIVE RStrip(_)
RStrip(t) ==
    IF Len(t) > 0 /\ IsSpace(t[Len(t)]) THEN RStrip(SubSeq(t, 1, Len(t) - 1)) ELSE t

\* str.strip()
Strip(t) == RStrip(LStrip(t))

\* --------------------------------------------- RecursiveCharacterTextSplitter

\* The default separators of RecursiveCharacterTextSplitter.
Separators == << << "\n", "\n" >>, << "\n" >>, << " " >>, << >> >>

IsAt(text, sep, i) ==
    /\ i + Len(sep) - 1 <= Len(text)
    /\ SubSeq(text, i, i + Len(sep) - 1) = sep

RECURSIVE FindFrom(_, _, _)
\* Index of the first occurrence of sep in text at or after i, 0 when none.
FindFrom(text, sep, i) ==
    IF i + Len(sep) - 1 > Len(text) THEN 0
    ELSE IF IsAt(text, sep, i) THEN i
    ELSE FindFrom(text, sep, i + 1)

RECURSIVE ReSplit(_, _)
\* re.split(sep, text): the pieces between the occurrences of a non-empty sep.
ReSplit(text, sep) ==
    LET i == FindFrom(text, sep, 1)
    IN  IF i = 0 THEN << text >>
        ELSE << SubSeq(text, 1, i - 1) >>
                 \o ReSplit(SubSeq(text, i + Len(sep), Len(text)), sep)

NonEmpty(pieces) == SelectSeq(pieces, LAMBDA p : Len(p) > 0)

\* _split_text_with_regex(text, sep, keep_separator=True): each separator is
\* kept at the start of the piece that follows it; empty pieces are dropped.
SplitTextWithRegex(text, sep) ==
    IF Len(sep) = 0
    THEN [i \in 1..Len(text) |-> << text[i] >>]
    ELSE LET p == ReSplit(text, sep)
         IN  NonEmpty(<< p[1] >> \o [i \in 1..(Len(p) - 1) |-> sep \o p[i + 1]])

\* _join_docs(docs, "") : the joined, stripped text, dropped when empty.
JoinDocs(current) ==
    LET t == Strip(Flatten(current))
    IN  IF Len(t) = 0 THEN << >> ELSE << t >>

RECURSIVE PopWhile(_, _, _, _, _)
\* The "keep on popping" loop of _merge_splits (separator length 0).
PopWhile(current, total, len, chunk_size, chunk_overlap) ==
    IF total > chunk_overlap \/ (total + len > chunk_size /\ total > 0)
    THEN PopWhile(Tail(current), total - Len(Head(current)), len,
                  chunk_size, chunk_overlap)
    ELSE [current |-> current, total |-> total]

RECURSIVE MergeFrom(_, _, _, _, _, _, _)
MergeFrom(splits, i, docs, current, total, chunk_size, chunk_overlap) ==
    IF i > Len(splits) THEN docs \o JoinDocs(current)
    ELSE LET d == splits[i]
             len == Len(d)
             over == total + len > chunk_size /\ Len(current) > 0
             docs2 == IF over THEN docs \o JoinDocs(current) ELSE docs
             popped == IF over
                       THEN PopWhile(current, total, len, chunk_size, chunk_overlap)
                       ELSE [current |-> current, total |-> total]
         IN  MergeFrom(splits, i + 1, docs2, Append(popped.current, d),
                       popped.total + len, chunk_size, chunk_overlap)

\* A variant that keeps one character more than chunk_overlap for the next chunk.
MergeSplitsLongOverlap(splits, chunk_size, chunk_overlap) ==
    MergeFrom(splits, 1, << >>, << >>, 0, chunk_size, chunk_overlap + 1)

\* A variant that lets a chunk grow one character past chunk_size.
MergeSplitsWide(splits, chunk_size, chunk_overlap) ==
    MergeFrom(splits, 1, << >>, << >>, 0, chunk_size + 1, chunk_overlap)

\* TextSplitter._merge_splits(splits, "")
MergeSplits(splits, chunk_size, chunk_overlap) ==
    MergeFrom(splits, 1, << >>, << >>, 0, chunk_size, chunk_overlap)

\* The separator _split_text picks: the first one found in the text, "" last.
RECURSIVE PickSeparator(_, _, _)
PickSeparator(text, separators, i) ==
    IF i > Len(separators) THEN [sep |-> separators[Len(separators)], rest |-> << >>]
    ELSE IF Len(separators[i]) = 0 THEN [sep |-> << >>, rest |-> << >>]
    ELSE IF FindFrom(text, separators[i], 1) # 0
         THEN [sep |-> separators[i],
               rest |-> SubSeq(separators, i + 1, Len(separators))]
    ELSE PickSeparator(text, separators, i + 1)

RECURSIVE SplitText(_, _, _, _)
RECURSIVE SplitLoop(_, _, _, _, _, _, _)
\* The loop of _split_text over the splits: short pieces are collected and
\* merged, a long piece is split again with the remaining separators.
SplitLoop(splits, i, good, final, rest, chunk_size, chunk_overlap) ==
    IF i > Len(splits)
    THEN IF Len(good) > 0
         THEN final \o MergeSplits(good, chunk_size, chunk_overlap)
         ELSE final
    ELSE LET s == splits[i]
         IN  IF Len(s) < chunk_size
             THEN SplitLoop(splits, i + 1, Append(good, s), final, rest,
                            chunk_size, chunk_overlap)
             ELSE LET flushed == IF Len(good) > 0
                                 THEN final \o MergeSplits(good, chunk_size, chunk_overlap)
                                 ELSE final
                      more == IF Len(rest) = 0 THEN << s >>
                              ELSE SplitText(s, rest, chunk_size, chunk_overlap)
                  IN  SplitLoop(splits, i + 1, << >>, flushed \o more, rest,
                                chunk_size, chunk_overlap)

\* RecursiveCharacterTextSplitter._split_text(text, separators)
SplitText(text, separators, chunk_size, chunk_overlap) ==
    LET pick == PickSeparator(text, separators, 1)
    IN  SplitLoop(SplitTextWithRegex(text, pick.sep), 1, << >>, << >>,
                  pick.rest, chunk_size, chunk_overlap)

\* TextSplitter.__init__ accepts the parameters (it raises ValueError otherwise).
SplitterAccepts(chunk_size, chunk_overlap) ==
    /\ chunk_size > 0
    /\ chunk_overlap >= 0
    /\ chunk_overlap <= chunk_size

RECURSIVE CreateDocuments(_, _, _)
\* TextSplitter.split_documents: the chunks of each document in turn, each
\* with its document's metadata.
CreateDocuments(documents, chunk_size, chunk_overlap) ==
    IF Len(documents) = 0 THEN << >>
    ELSE LET doc == Head(documents)
             texts == SplitText(doc.page_content, Separators, chunk_size, chunk_overlap)
         IN  [i \in 1..Len(texts) |->
                 [page_content |-> texts[i], metadata |-> doc.metadata]]
             \o CreateDocuments(Tail(documents), chunk_size, chunk_overlap)


\* ------------------------------------------------------------ the outside world

\* The user's files on disk.
UserFiles == { << "f" >> }

\* The name tempfile.NamedTemporaryFile gives its n-th file.
TempPath(n) == << "t" >> \o NatStr(n)

TextA == << "a", "b", " ", "c", "d", " ", "e", "f" >>
TextB == << "e", "e", " ", "f", "f" >>

Doc(text, source) == [page_content |-> text, metadata |-> [source |-> source]]

\* What PyPDFLoader(path).load() returns for an existing file: one Document a page.
PdfPages(path) == << Doc(<< "a", "b", " ", "c", "d" >>, path), Doc(<< "e", "f" >>, path) >>
\* What TextLoader(path).load() returns for an existing file: one Document.
FileText(path) == << Doc(TextA, path) >>
\* What WebBaseLoader(url).load() returns when the fetch succeeds: one Document.
WebPage(url) == << Doc(TextB, url) >>

\* Responses of the language model (response.content).
Fallback == "I don't have enough information in the provided document to answer this question."
Answers == { "answer", Fallback }

\* An outcome of a call that may raise.
Ok(v) == [ok |-> TRUE, value |-> v]
Raise(e) == [ok |-> FALSE, error |-> e]

\* ------------------------------------------------------------------- state

VARIABLES
    env,        \* os.environ: OPENROUTER_API_KEY, CHUNK_SIZE, CHUNK_OVERLAP
    pc,         \* pc[r]: where run r of answer_question_with_graph is
    state,      \* state[r]: the GraphState of run r
    executed,   \* executed[r]: the nodes run r has entered, in order
    result,     \* result[r]: Some(return value) once run r has returned
    error,      \* error[r]: Some(message) once run r has raised
    prompt,     \* prompt[r]: Some(the prompt run r formatted for the model)
    hits,       \* hits[r]: the runs that indexed the chunks run r retrieved
    chroma_db,  \* the collection persisted at ./chroma_db, in insertion order
    main,       \* the batch entry (main.py)
    ui,         \* the interactive entry (streamlit_app.py): one script execution
    temp_files  \* the temporary files on disk, and how many were ever created
                \* (the n-th is named TempPath(n))

vars == << env, pc, state, executed, result, error, prompt, hits, chroma_db,
           main, ui, temp_files >>

runVars == << pc, state, executed, result, error, prompt, hits, chroma_db >>

Runs == 1..NRuns

\* The paths that exist (os.path.exists, and what the file loaders can open).
ExistingFiles == UserFiles \cup { TempPath(n) : n \in temp_files.on_disk }

\* ----------------------------------------------------------------- loaders.py

WebContentError == "Failed to load web content"
PdfContentError == "Failed to load PDF content"
TextFileContentError == "Failed to load text file content"
UnsupportedInputType == "Unsupported input type"

\* _load_web_content: the fetch succeeds or fails; a failure is re-raised.
LoadWebContent(url) == { Ok(WebPage(url)), Raise(WebContentError) }

\* _load_pdf_content: a missing file fails, an existing one may fail to parse.
LoadPdfContent(file_path, files) ==
    IF file_path \in files
    THEN { Ok(PdfPages(file_path)), Raise(PdfContentError) }
    ELSE { Raise(PdfContentError) }

\* _load_text_file_content
LoadTextFileContent(file_path, files) ==
    IF file_path \in files
    THEN { Ok(FileText(file_path)), Raise(TextFileContentError) }
    ELSE { Raise(TextFileContentError) }

\* _load_direct_text_content
LoadDirectTextContent(text) == { Ok(<< Doc(text, << "direct_text" >>) >>) }

\* load_content(input_type, content): the set of its possible outcomes.
load_content(input_type, content, files) ==
    IF input_type = Some("url") THEN LoadWebContent(Val(content))
    ELSE IF input_type = Some("pdf") THEN LoadPdfContent(Val(content), files)
    ELSE IF input_type = Some("textfile") THEN LoadTextFileContent(Val(content), files)
    ELSE IF input_type = Some("text") THEN LoadDirectTextContent(Val(content))
    ELSE { Raise(UnsupportedInputType) }

\* ----------------------------------------------------------- text_splitter.py

\* int(os.getenv(name, default))
EnvInt(value, default) == IF IsNone(value) THEN default ELSE IntOf(Val(value))

SplitterValueError == "ValueError: chunk size / chunk overlap"

\* split_documents(documents, chunk_size, chunk_overlap)
split_documents(documents, chunk_size, chunk_overlap, e) ==
    LET size == IF IsNone(chunk_size)
                THEN EnvInt(e.CHUNK_SIZE, DefaultChunkSize)
                ELSE Val(chunk_size)
        overlap == IF IsNone(chunk_overlap)
                   THEN EnvInt(e.CHUNK_OVERLAP, DefaultChunkOverlap)
                   ELSE Val(chunk_overlap)
    IN  IF SplitterAccepts(size, overlap)
        THEN Ok(CreateDocuments(documents, size, overlap))
        ELSE Raise(SplitterValueError)

\* ------------------------------------------------------------- vector_store.py

PersistDirectory == "./chroma_db"
EmbeddingError == "embedding / index failure"

\* Chroma.from_documents(documents, embeddings, persist_directory="./chroma_db"):
\* opens the collection persisted there and adds the documents to it.
FromDocuments(db, documents, r) ==
    db \o [i \in 1..Len(documents) |-> [doc |-> documents[i], run |-> r]]

Letters == { "a", "b", "c", "d", "e", "f" }

RECURSIVE Count(_, _)
Count(t, c) ==
    IF Len(t) = 0 THEN 0 ELSE (IF Head(t) = c THEN 1 ELSE 0) + Count(Tail(t), c)

Abs(n) == IF n < 0 THEN -n ELSE n

RECURSIVE SumOver(_, _, _)
SumOver(S, q, t) ==
    IF S = {} THEN 0
    ELSE LET c == CHOOSE x \in S : TRUE
         IN  Abs(Count(q, c) - Count(t, c)) + SumOver(S \ {c}, q, t)

\* Distance between the embeddings of two texts (an embedding is modelled as
\* the vector of letter counts, the distance as the L1 distance).
Distance(q, t) == SumOver(Letters, q, t)

\* Position (from 0) of entry i among the entries ordered by distance to the
\* question, entries at the same distance in insertion order.
Rank(db, question, i) ==
    Cardinality({ j \in 1..Len(db) :
        LET dj == Distance(question, db[j].doc.page_content)
            di == Distance(question, db[i].doc.page_content)
        IN  dj < di \/ (dj = di /\ j < i) })

\* The indices of the k nearest entries, nearest first.
Nearest(db, question, k) ==
    LET n == IF Len(db) < k THEN Len(db) ELSE k
    IN  [p \in 1..n |-> CHOOSE i \in 1..Len(db) : Rank(db, question, i) = p - 1]

\* search_relevant_chunks(vector_store, question, k): similarity_search
search_relevant_chunks(db, question, k) ==
    LET near == Nearest(db, question, k)
    IN  [p \in 1..Len(near) |-> db[near[p]].doc]

\* --------------------------------------------------- llm_utils.py, answer_node.py

ApiKeyError == "OPENROUTER_API_KEY environment variable is not set"
LlmError == "language model request failed"

\* initialize_llm(): raises ValueError when the key is unset or empty.
initialize_llm(e) ==
    IF ~TruthyStr(e.OPENROUTER_API_KEY) THEN Raise(ApiKeyError) ELSE Ok("llm")

InstructionHead == << "A", "n", "s", "w", "e", "r", " ", "i", "n", " ", "n", "o", " ",
                      "m", "o", "r", "e", " ", "t", "h", "a", "n", " " >>
InstructionTail == << " ", "s", "e", "n", "t", "e", "n", "c", "e", "s", "." >>

\* A variant that appends the instruction whatever the value is.
AnswerLengthInstructionAlways(max_answer_length) ==
    InstructionHead
        \o (IF IsNone(max_answer_length) THEN << "N", "o", "n", "e" >>
            ELSE IntStr(Val(max_answer_length)))
        \o InstructionTail

\* A variant that tests "is not None" instead of truthiness.
AnswerLengthInstructionNotNone(max_answer_length) ==
    IF ~IsNone(max_answer_length)
    THEN InstructionHead \o IntStr(Val(max_answer_length)) \o InstructionTail
    ELSE << >>

\* answer_node.py:53-56: the answer length instruction.
AnswerLengthInstruction(max_answer_length) ==
    IF TruthyInt(max_answer_length)
    THEN InstructionHead \o IntStr(Val(max_answer_length)) \o InstructionTail
    ELSE << >>

\* answer_node.py:50-63: ANSWER_QUESTION_PROMPT.format(...)
FormatPrompt(relevant_chunks, question, max_answer_length) ==
    [context |-> JoinWith([i \in 1..Len(relevant_chunks) |->
                              relevant_chunks[i].page_content], << "\n", "\n" >>),
     question |-> question,
     answer_length_instruction |-> AnswerLengthInstruction(max_answer_length)]

\* ------------------------------------------------------------------ graph.py

Nodes == << "load_content", "split_documents", "create_vector_store",
            "search_relevant_chunks", "answer_question" >>

\* create_graph(): set_entry_point and the add_edge calls.
EntryPoint == "load_content"

\* A variant of the edges that leaves the indexing stage out.
EdgeSkipsIndex(node) ==
    CASE node = "load_content" -> "split_documents"
      [] node = "split_documents" -> "search_relevant_chunks"
      [] node = "create_vector_store" -> "search_relevant_chunks"
      [] node = "search_relevant_chunks" -> "answer_question"
      [] node = "answer_question" -> "END"

\* A variant of the edges that leaves the retrieval stage out.
EdgeSkipsSearch(node) ==
    CASE node = "load_content" -> "split_documents"
      [] node = "split_documents" -> "create_vector_store"
      [] node = "create_vector_store" -> "answer_question"
      [] node = "search_relevant_chunks" -> "answer_question"
      [] node = "answer_question" -> "END"

Edge(node) ==
    CASE node = "load_content" -> "split_documents"
      [] node = "split_documents" -> "create_vector_store"
      [] node = "create_vector_store" -> "search_relevant_chunks"
      [] node = "search_relevant_chunks" -> "answer_question"
      [] node = "answer_question" -> "END"

\* The state field each node's returned update holds (graph.py:43, 53, 59, 69, 82).
Writes(node) ==
    CASE node = "load_content" -> "documents"
      [] node = "split_documents" -> "chunks"
      [] node = "create_vector_store" -> "vector_store"
      [] node = "search_relevant_chunks" -> "relevant_chunks"
      [] node = "answer_question" -> "final_answer"

\* The state fields each node reads (graph.py:42, 49-51, 58, 65-66, 78-80).
Reads(node) ==
    CASE node = "load_content" -> { "input_type", "content" }
      [] node = "split_documents" -> { "documents", "chunk_size", "chunk_overlap" }
      [] node = "create_vector_store" -> { "chunks" }
      [] node = "search_relevant_chunks" -> { "vector_store", "question" }
      [] node = "answer_question" -> { "relevant_chunks", "question", "max_answer_length" }

\* A variant of the merge that loses the question.
MergeLosesQuestion(st, update) ==
    [f \in DOMAIN st |-> IF f \in DOMAIN update THEN update[f]
                         ELSE IF f = "question" THEN << >> ELSE st[f]]

\* The merge of a node's partial update into the state.
Merge(st, update) ==
    [f \in DOMAIN st |-> IF f \in DOMAIN update THEN update[f] ELSE st[f]]

\* A node of run r returned `update`: the state is merged, the edge followed.
NodeReturns(r, node, update) ==
    /\ state' = [state EXCEPT ![r] = Merge(state[r], update)]
    /\ pc' = [pc EXCEPT ![r] = Edge(node)]
    /\ executed' = [executed EXCEPT ![r] = Append(executed[r], node)]
    /\ error' = error

\* A variant in which the graph records a node's error and goes on.
NodeSwallows(r, node, e) ==
    /\ state' = state
    /\ pc' = [pc EXCEPT ![r] = Edge(node)]
    /\ executed' = [executed EXCEPT ![r] = Append(executed[r], node)]
    /\ error' = [error EXCEPT ![r] = Some(e)]

\* A node of run r raised: app.invoke and answer_question_with_graph propagate it.
NodeRaises(r, node, e) ==
    /\ state' = state
    /\ pc' = [pc EXCEPT ![r] = "raised"]
    /\ executed' = [executed EXCEPT ![r] = Append(executed[r], node)]
    /\ error' = [error EXCEPT ![r] = Some(e)]

\* graph.py:148-161
InitialState(input_type, content, question, chunk_size, chunk_overlap, max_answer_length) ==
    [input_type |-> input_type, content |-> content, question |-> question,
     documents |-> << >>, chunks |-> << >>, relevant_chunks |-> << >>,
     final_answer |-> "", chunk_size |-> chunk_size,
     chunk_overlap |-> chunk_overlap, max_answer_length |-> max_answer_length,
     vector_store |-> None]

\* graph.py:139-142: the defaults of chunk_size and chunk_overlap.
ResolveDefault(arg, value, default) ==
    IF IsNone(arg) THEN Some(EnvInt(value, default)) ELSE arg

\* answer_question_with_graph(...), up to app.invoke(initial_state).
answer_question_with_graph(r, input_type, content, question, chunk_size, chunk_overlap, max_answer_length) ==
    /\ pc[r] = "idle"
    /\ pc' = [pc EXCEPT ![r] = EntryPoint]
    /\ state' = [state EXCEPT ![r] =
           InitialState(input_type, content, question,
               ResolveDefault(chunk_size, env.CHUNK_SIZE, DefaultChunkSize),
               ResolveDefault(chunk_overlap, env.CHUNK_OVERLAP, DefaultChunkOverlap),
               max_answer_length)]
    /\ UNCHANGED << env, executed, result, error, prompt, hits, chroma_db >>

\* load_content_node
load_content_node(r) ==
    /\ pc[r] = "load_content"
    /\ \E out \in load_content(state[r].input_type, state[r].content, ExistingFiles) :
          IF out.ok
          THEN NodeReturns(r, "load_content", [documents |-> out.value])
          ELSE NodeRaises(r, "load_content", out.error)
    /\ UNCHANGED << env, result, prompt, hits, chroma_db, main, ui, temp_files >>

\* split_documents_node
split_documents_node(r) ==
    /\ pc[r] = "split_documents"
    /\ LET out == split_documents(state[r].documents, state[r].chunk_size,
                                  state[r].chunk_overlap, env)
       IN  IF out.ok
           THEN NodeReturns(r, "split_documents", [chunks |-> out.value])
           ELSE NodeRaises(r, "split_documents", out.error)
    /\ UNCHANGED << env, result, prompt, hits, chroma_db, main, ui, temp_files >>

\* create_vector_store_node: the embedding model loads and the chunks are added
\* to the persisted collection, or the collaborator fails.
create_vector_store_node(r) ==
    /\ pc[r] = "create_vector_store"
    /\ \/ /\ chroma_db' = FromDocuments(chroma_db, state[r].chunks, r)
          /\ NodeReturns(r, "create_vector_store",
                         [vector_store |-> Some(PersistDirectory)])
       \/ /\ chroma_db' = chroma_db
          /\ NodeRaises(r, "create_vector_store", EmbeddingError)
    /\ UNCHANGED << env, result, prompt, hits, main, ui, temp_files >>

\* search_relevant_chunks_node
search_relevant_chunks_node(r) ==
    /\ pc[r] = "search_relevant_chunks"
    /\ \/ /\ ~IsNone(state[r].vector_store)
          /\ NodeReturns(r, "search_relevant_chunks",
                 [relevant_chunks |->
                     search_relevant_chunks(chroma_db, state[r].question, K)])
          /\ hits' = [hits EXCEPT ![r] =
                 LET near == Nearest(chroma_db, state[r].question, K)
                 IN  [p \in 1..Len(near) |-> chroma_db[near[p]].run]]
       \/ /\ NodeRaises(r, "search_relevant_chunks", EmbeddingError)
          /\ hits' = hits
    /\ UNCHANGED << env, result, prompt, chroma_db, main, ui, temp_files >>

\* answer_question_node_wrapper / answer_question_node
answer_question_node_wrapper(r) ==
    /\ pc[r] = "answer_question"
    /\ IF ~initialize_llm(env).ok
       THEN /\ NodeRaises(r, "answer_question", initialize_llm(env).error)
            /\ prompt' = prompt
       ELSE /\ prompt' = [prompt EXCEPT ![r] =
                   Some(FormatPrompt(state[r].relevant_chunks, state[r].question,
                                     state[r].max_answer_length))]
            /\ \/ \E answer \in Answers :
                     NodeReturns(r, "answer_question", [final_answer |-> answer])
               \/ NodeRaises(r, "answer_question", LlmError)
    /\ UNCHANGED << env, result, hits, chroma_db, main, ui, temp_files >>

\* graph.py:164-166: app.invoke returned; return final_state["final_answer"].
Return(r) ==
    /\ pc[r] = "END"
    /\ pc' = [pc EXCEPT ![r] = "returned"]
    /\ result' = [result EXCEPT ![r] = Some(state[r].final_answer)]
    /\ UNCHANGED << env, state, executed, error, prompt, hits, chroma_db, main, ui, temp_files >>

\* One step of the pipeline of run r.
Stage(r) ==
    \/ load_content_node(r)
    \/ split_documents_node(r)
    \/ create_vector_store_node(r)
    \/ search_relevant_chunks_node(r)
    \/ answer_question_node_wrapper(r)
    \/ Return(r)


\* ------------------------------------------------------------- initial state

\* The environments considered: the key set or not, CHUNK_SIZE and
\* CHUNK_OVERLAP set (to "3" and "1") or not.
Envs ==
    [OPENROUTER_API_KEY : { None, Some(<< "k" >>) },
     CHUNK_SIZE : { None, Some(<< "3" >>) },
     CHUNK_OVERLAP : { None, Some(<< "1" >>) }]

\* The state of a run that has not been called.
NoState == InitialState(None, None, << >>, None, None, None)

MainStart == [pc |-> "start", args |-> None, exit |-> None, stdout |-> << >>]
UiStart == [pc |-> "idle", temp_file_path |-> None, shown |-> << >>, scripts |-> 0]

Init ==
    /\ env \in Envs
    /\ pc = [r \in Runs |-> "idle"]
    /\ state = [r \in Runs |-> NoState]
    /\ executed = [r \in Runs |-> << >>]
    /\ result = [r \in Runs |-> None]
    /\ error = [r \in Runs |-> None]
    /\ prompt = [r \in Runs |-> None]
    /\ hits = [r \in Runs |-> << >>]
    /\ chroma_db = << >>
    /\ main = MainStart
    /\ ui = UiStart
    /\ temp_files = [on_disk |-> {}, created |-> 0]

\* ------------------------------------------- a call of answer_question_with_graph

InputTypes == { Some("url"), Some("pdf"), Some("textfile"), Some("text"), Some("docx") }
Contents == { Some(<< >>), Some(<< "f" >>), Some(TextA) }
Questions == { << "a", "b" >>, << "e", "f" >> }
ChunkArgs == { None } \cup { Some(n) : n \in -1..MaxChunk }
LengthArgs == { None } \cup { Some(n) : n \in -1..MaxSentences }

\* A caller invokes answer_question_with_graph once, with any arguments.
Call ==
    /\ \A r \in Runs : pc[r] = "idle"
    /\ \E input_type \in InputTypes, content \in Contents, question \in Questions,
          chunk_size \in ChunkArgs, chunk_overlap \in ChunkArgs,
          max_answer_length \in LengthArgs :
          answer_question_with_graph(1, input_type, content, question,
                                     chunk_size, chunk_overlap, max_answer_length)
    /\ UNCHANGED << main, ui, temp_files >>

Next == Call \/ \E r \in Runs : Stage(r)

Spec == Init /\ [][Next]_vars


\* ------------------------------------------------------------------- main.py

Sources == { "url", "pdf", "textfile", "text" }

\* args.<name>: the value of the one source option given, None for the others
\* (the options form a required mutually exclusive group).
Arg(args, name) == IF args.source = name THEN Some(args.value) ELSE None

\* main.py:51-74: the input type and content, and whether a file that was
\* checked exists.
SelectSource(args, files) ==
    IF TruthyStr(Arg(args, "url"))
    THEN [input_type |-> Some("url"), content |-> Arg(args, "url"), found |-> TRUE]
    ELSE IF TruthyStr(Arg(args, "pdf"))
    THEN [input_type |-> Some("pdf"), content |-> Arg(args, "pdf"),
          found |-> Val(Arg(args, "pdf")) \in files]
    ELSE IF TruthyStr(Arg(args, "textfile"))
    THEN [input_type |-> Some("textfile"), content |-> Arg(args, "textfile"),
          found |-> Val(Arg(args, "textfile")) \in files]
    ELSE IF TruthyStr(Arg(args, "text"))
    THEN [input_type |-> Some("text"), content |-> Arg(args, "text"), found |-> TRUE]
    ELSE [input_type |-> None, content |-> None, found |-> TRUE]

\* main.py:77-78: args.chunk_size or int(os.getenv("CHUNK_SIZE", 500))
OrDefault(arg, value, default) ==
    IF TruthyInt(arg) THEN Val(arg) ELSE EnvInt(value, default)

FileNotFound == "file not found"

\* sys.exit(1) after printing a message.
MainExits(args, message) ==
    /\ main' = [pc |-> "exited", args |-> Some(args), exit |-> Some(1),
                stdout |-> << [kind |-> "error", text |-> message] >>]
    /\ UNCHANGED << env, runVars >>

\* main(), up to the call of answer_question_with_graph.
main_start(args) ==
    /\ main.pc = "start"
    /\ LET src == SelectSource(args, ExistingFiles)
       IN  IF ~src.found THEN MainExits(args, FileNotFound)
           ELSE IF ~TruthyStr(env.OPENROUTER_API_KEY) THEN MainExits(args, ApiKeyError)
           ELSE /\ main' = [main EXCEPT !.pc = "running", !.args = Some(args)]
                /\ answer_question_with_graph(1, src.input_type, src.content,
                       args.question,
                       Some(OrDefault(args.chunk_size, env.CHUNK_SIZE, DefaultChunkSize)),
                       Some(OrDefault(args.chunk_overlap, env.CHUNK_OVERLAP,
                                      DefaultChunkOverlap)),
                       args.max_answer_length)
    /\ UNCHANGED << ui, temp_files >>

\* main.py:97-104: the answer is printed, or the exception and sys.exit(1).
main_finish ==
    /\ main.pc = "running"
    /\ pc[1] \in { "returned", "raised" }
    /\ IF pc[1] = "returned"
       THEN main' = [main EXCEPT !.pc = "exited", !.exit = Some(0),
                !.stdout = << [kind |-> "question", text |-> Val(main.args).question],
                              [kind |-> "answer", text |-> Val(result[1])] >>]
       ELSE main' = [main EXCEPT !.pc = "exited", !.exit = Some(1),
                !.stdout = << [kind |-> "error", text |-> Val(error[1])] >>]
    /\ UNCHANGED << env, runVars, ui, temp_files >>

ArgValues == { << >>, << "f" >>, TextA }

\* The command lines considered.
MainArgs ==
    [source : Sources, value : ArgValues, question : { << "a", "b" >> },
     chunk_size : ChunkArgs, chunk_overlap : ChunkArgs,
     max_answer_length : { None, Some(MaxSentences) }]

NextMain ==
    \/ \E args \in MainArgs : main_start(args)
    \/ Stage(1)
    \/ main_finish

\* One execution of main.py.
SpecMain == Init /\ [][NextMain]_vars

\* ---------------------------------------------------------- streamlit_app.py

UploadLimit == 1024 * 1024

\* What one script execution reads from the widgets.
UiInputs ==
    [content_type : Sources,
     uploaded : { None, Some(UploadLimit), Some(UploadLimit + 1) },
     typed : { << >>, TextA },
     question : { << >>, << "a", "b" >> },
     button : BOOLEAN,
     chunk_size : { 100 },
     chunk_overlap : { 0, 200 },
     max_answer_length : { 10 }]

IsUpload(inp) == inp.content_type \in { "pdf", "textfile" } /\ ~IsNone(inp.uploaded)

\* streamlit_app.py:97-130: the content the script hands to the pipeline, with
\* the temporary file `path` written for an upload.
UiContent(inp, path) ==
    IF inp.content_type \in { "url", "text" } THEN Some(inp.typed)
    ELSE IF IsNone(inp.uploaded) THEN None
    ELSE Some(path)

\* The script ends: its variables are gone, the files it left stay.
ScriptEnds(shown, files) ==
    /\ ui' = [pc |-> "idle", temp_file_path |-> None, shown |-> shown,
              scripts |-> ui.scripts + 1]
    /\ temp_files' = files
    /\ UNCHANGED << env, runVars >>

\* One execution of the script, up to its end or to the call of
\* answer_question_with_graph.
ui_script(inp) ==
    /\ ui.pc = "idle"
    /\ ui.scripts < MaxScriptRuns
    /\ LET n == temp_files.created + 1
           written == [on_disk |-> temp_files.on_disk \cup { n }, created |-> n]
           tooBig == IsUpload(inp) /\ Val(inp.uploaded) > UploadLimit
           files == IF IsUpload(inp) /\ ~tooBig THEN written ELSE temp_files
           content == UiContent(inp, TempPath(n))
       IN  IF ~TruthyStr(env.OPENROUTER_API_KEY)
           THEN ScriptEnds(<< "error: OPENROUTER_API_KEY is required" >>, temp_files)
           ELSE IF tooBig
           THEN ScriptEnds(<< "error: file size exceeds 1MB limit" >>, temp_files)
           ELSE IF ~inp.button
           THEN ScriptEnds(<< >>, files)
           ELSE IF ~TruthyStr(content)
           THEN ScriptEnds(<< "warning: provide content" >>, files)
           ELSE IF Len(inp.question) = 0
           THEN ScriptEnds(<< "warning: enter a question" >>, files)
           ELSE /\ ui' = [pc |-> "running",
                          temp_file_path |-> IF IsUpload(inp) THEN Some(n) ELSE None,
                          shown |-> << >>, scripts |-> ui.scripts + 1]
                /\ temp_files' = files
                /\ answer_question_with_graph(1, Some(inp.content_type), content,
                       inp.question, Some(inp.chunk_size), Some(inp.chunk_overlap),
                       IF inp.max_answer_length > 0
                       THEN Some(inp.max_answer_length) ELSE None)
    /\ main' = main

\* streamlit_app.py:163-179: the answer or the error is shown, the temporary
\* file of this execution is removed, and the script ends.
ui_finish ==
    /\ ui.pc = "running"
    /\ pc[1] \in { "returned", "raised" }
    /\ ui' = [ui EXCEPT !.pc = "idle", !.temp_file_path = None,
                        !.shown = IF pc[1] = "returned"
                                  THEN << "success", Val(result[1]) >>
                                  ELSE << "error", Val(error[1]) >>]
    /\ temp_files' =
           IF ~IsNone(ui.temp_file_path) /\ Val(ui.temp_file_path) \in temp_files.on_disk
           THEN [temp_files EXCEPT !.on_disk = @ \ { Val(ui.temp_file_path) }]
           ELSE temp_files
    /\ pc' = [pc EXCEPT ![1] = "idle"]
    /\ state' = [state EXCEPT ![1] = NoState]
    /\ executed' = [executed EXCEPT ![1] = << >>]
    /\ result' = [result EXCEPT ![1] = None]
    /\ error' = [error EXCEPT ![1] = None]
    /\ prompt' = [prompt EXCEPT ![1] = None]
    /\ hits' = [hits EXCEPT ![1] = << >>]
    /\ UNCHANGED << env, chroma_db, main >>

NextUi ==
    \/ \E inp \in UiInputs : ui_script(inp)
    \/ Stage(1)
    \/ ui_finish

\* A session of the interactive entry: the script is executed again and again.
SpecUi == Init /\ [][NextUi]_vars

\* ------------------------------------------------- runs that share ./chroma_db

\* Callers invoke answer_question_with_graph on direct text, one run after
\* another or interleaved; runs are numbered in the order of their calls.
CallShared ==
    /\ \E r \in Runs :
          /\ \A q \in Runs : q < r => pc[q] # "idle"
          /\ \E content \in { TextA, TextB }, question \in Questions :
                answer_question_with_graph(r, Some("text"), Some(content), question,
                                           Some(3), Some(0), None)
    /\ UNCHANGED << main, ui, temp_files >>

NextShared == CallShared \/ \E r \in Runs : Stage(r)

SpecShared == Init /\ [][NextShared]_vars

\* ------------------------------------------------- split_documents on its own

\* The characters of the document texts: two letters and the two characters
\* the separators are made of.
SplitAlphabet == { "a", "b", " ", "\n" }

\* Every text of at most MaxTextLen characters.
SplitTexts == UNION { [1..n -> SplitAlphabet] : n \in 0..MaxTextLen }

\* Texts of the documents of a two-document input.
PageTexts == { TextA, TextB, << "a", "b", "\n", "\n", "a", " ", "b", "b" >> }

\* The document sequences given to split_documents: one document of any text,
\* or two documents (of different sources) of longer texts.
DocumentSeqs ==
    { << Doc(t, << "direct_text" >>) >> : t \in SplitTexts }
    \cup { << Doc(t, << "p", "1" >>), Doc(u, << "p", "2" >>) >> : t, u \in PageTexts }

\* The chunk parameters: chunk_size > 0 and 0 <= chunk_overlap < chunk_size.
SplitParams ==
    { p \in (1..MaxChunk) \X (0..MaxChunk) : p[2] < p[1] }

\* A run whose documents are loaded and whose next stage is split_documents.
InitSplit ==
    /\ env = [OPENROUTER_API_KEY |-> None, CHUNK_SIZE |-> None, CHUNK_OVERLAP |-> None]
    /\ pc = [r \in Runs |-> IF r = 1 THEN "split_documents" ELSE "idle"]
    /\ \E documents \in DocumentSeqs, p \in SplitParams :
          state = [r \in Runs |->
                     IF r = 1
                     THEN [InitialState(Some("text"), Some(documents[1].page_content),
                                        << "a" >>, Some(p[1]), Some(p[2]), None)
                              EXCEPT !.documents = documents]
                     ELSE NoState]
    /\ executed = [r \in Runs |-> IF r = 1 THEN << "load_content" >> ELSE << >>]
    /\ result = [r \in Runs |-> None]
    /\ error = [r \in Runs |-> None]
    /\ prompt = [r \in Runs |-> None]
    /\ hits = [r \in Runs |-> << >>]
    /\ chroma_db = << >>
    /\ main = MainStart
    /\ ui = UiStart
    /\ temp_files = [on_disk |-> {}, created |-> 0]

NextSplit == split_documents_node(1)

\* split_documents applied to every bounded input.
SpecSplit == InitSplit /\ [][NextSplit]_vars


\* ===================================================================== claims

Range(f) == { f[i] : i \in DOMAIN f }

IsPrefix(a, b) == Len(a) <= Len(b) /\ SubSeq(b, 1, Len(a)) = a

\* C1: in every run the stages are entered in the fixed order load_content,
\* split_documents, create_vector_store, search_relevant_chunks,
\* answer_question, none twice; the node a run is at is the one after those it
\* has executed; a run returns only after all five, and what it returns is the
\* final_answer the answer stage wrote.
C1_FixedStageOrder ==
    \A r \in Runs :
        /\ IsPrefix(executed[r], Nodes)
        /\ pc[r] \in Range(Nodes) => pc[r] = Nodes[Len(executed[r]) + 1]
        /\ pc[r] \in { "END", "returned" } => executed[r] = Nodes
        /\ ~IsNone(result[r]) => pc[r] = "returned"
        /\ pc[r] = "returned" =>
              /\ result[r] = Some(state[r].final_answer)
              /\ Val(result[r]) \in Answers

C1_Witness ==
    \E r \in Runs :
        pc[r] = "returned" /\ executed[r] = Nodes /\ result[r] = Some("answer")

\* C2: once a stage of a run has raised, the run is over: the error is the
\* caller's, the failed stage is the last one entered, no stage of the run can
\* execute (none later, the failed one not again), and nothing is returned.
C2_ErrorAbortsRun ==
    \A r \in Runs :
        /\ pc[r] = "raised" <=> ~IsNone(error[r])
        /\ ~IsNone(error[r]) =>
              /\ IsNone(result[r])
              /\ state[r].final_answer = ""
              /\ Len(executed[r]) >= 1
              /\ IsPrefix(executed[r], Nodes)
              /\ ~ENABLED Stage(r)

C2_Witness ==
    \E r \in Runs :
        /\ pc[r] = "raised"
        /\ executed[r] = << "load_content", "split_documents" >>
        /\ error[r] = Some(SplitterValueError)

\* C3: for runs that share ./chroma_db, the retrieval stage of a run returns at
\* most K chunks, each one a chunk this run's split stage produced and this
\* run's index stage indexed.
C3_RetrievesOwnChunks ==
    \A r \in Runs :
        /\ Len(state[r].relevant_chunks) <= K
        /\ \A i \in 1..Len(hits[r]) :
              /\ hits[r][i] = r
              /\ state[r].relevant_chunks[i] \in Range(state[r].chunks)

\* C4: a run that fails for the missing OPENROUTER_API_KEY has executed none
\* of the load, split, index and retrieval stages and has written no index.
C4_MissingKeyFailsAtStart ==
    \A r \in Runs :
        error[r] = Some(ApiKeyError) =>
            /\ Range(executed[r]) \cap { "load_content", "split_documents",
                   "create_vector_store", "search_relevant_chunks" } = {}
            /\ chroma_db = << >>

\* C5: when the split stage is entered with chunk_size <= 0 or
\* chunk_overlap >= chunk_size, it fails with the configuration error and the
\* index stage is never entered.
C5_InvalidChunkParamsFailFast ==
    \A r \in Runs :
        ( /\ "split_documents" \in Range(executed[r])
          /\ \/ Val(state[r].chunk_size) <= 0
             \/ Val(state[r].chunk_overlap) >= Val(state[r].chunk_size) )
        => /\ error[r] = Some(SplitterValueError)
           /\ "create_vector_store" \notin Range(executed[r])

\* The number of places of text t where pat occurs.
Occurrences(t, pat) == Cardinality({ i \in 1..Len(t) : IsAt(t, pat, i) })

\* The number an instruction "Answer in no more than <n> sentences." names.
NamedSentences(ins) ==
    IntOf(SubSeq(ins, Len(InstructionHead) + 1, Len(ins) - Len(InstructionTail)))

\* C6: the prompt a run formats holds no length instruction when
\* max_answer_length is None, and for N > 0 exactly one, which names N.
C6_LengthInstruction ==
    \A r \in Runs :
        ~IsNone(prompt[r]) =>
            LET m == state[r].max_answer_length
                ins == Val(prompt[r]).answer_length_instruction
            IN  /\ IsNone(m) => ins = << >>
                /\ (~IsNone(m) /\ Val(m) > 0) =>
                      /\ Occurrences(ins, InstructionHead) = 1
                      /\ IsAt(ins, InstructionHead, 1)
                      /\ Occurrences(ins, InstructionTail) = 1
                      /\ IsAt(ins, InstructionTail, Len(ins) - Len(InstructionTail) + 1)
                      /\ NamedSentences(ins) = Val(m)

C6_Witness ==
    \E r \in Runs :
        /\ ~IsNone(prompt[r])
        /\ state[r].max_answer_length = Some(MaxSentences)
        /\ NamedSentences(Val(prompt[r]).answer_length_instruction) = MaxSentences

C8_NoTempFileRemains ==
    ui.pc = "idle" => temp_files.on_disk = {}

\* C9: a --chunk-size / --chunk-overlap value given on the command line is the
\* value the chunker is called with.
C9_ExplicitValuesReachChunker ==
    ( main.pc # "start" /\ "split_documents" \in Range(executed[1]) ) =>
        LET args == Val(main.args)
        IN  /\ ~IsNone(args.chunk_size) => state[1].chunk_size = args.chunk_size
            /\ ~IsNone(args.chunk_overlap) => state[1].chunk_overlap = args.chunk_overlap

AnswerPrinted == \E i \in 1..Len(main.stdout) : main.stdout[i].kind = "answer"

\* C10: the batch entry exits non-zero without printing an answer, and without
\* having started the pipeline, for a --pdf / --textfile path that does not
\* exist and for a missing key; it exits non-zero without printing an answer
\* when the pipeline raised; it exits zero only with the pipeline's answer
\* printed.
C10_BatchExitStatus ==
    main.pc = "exited" =>
        LET args == Val(main.args)
        IN  /\ ( args.source \in { "pdf", "textfile" } /\ args.value \notin ExistingFiles )
                  => ( Val(main.exit) # 0 /\ ~AnswerPrinted /\ pc[1] = "idle" )
            /\ ~TruthyStr(env.OPENROUTER_API_KEY)
                  => ( Val(main.exit) # 0 /\ ~AnswerPrinted /\ pc[1] = "idle" )
            /\ pc[1] = "raised" => ( Val(main.exit) # 0 /\ ~AnswerPrinted )
            /\ Val(main.exit) = 0 =>
                  /\ pc[1] = "returned"
                  /\ main.stdout[Len(main.stdout)] =
                         [kind |-> "answer", text |-> Val(result[1])]

\* The positions at which chunk occurs in text.
Occurs(text, chunk) ==
    { p \in 1..(Len(text) - Len(chunk) + 1) : SubSeq(text, p, p + Len(chunk) - 1) = chunk }

RECURSIVE Starts(_, _, _, _)
\* The positions at which the i-th of the chunks can start in text when the
\* chunks are laid on the text in order: each starts no earlier than the one
\* before it and shares at most `share` characters of the text with it.
Starts(text, chunks, i, share) ==
    IF i = 1 THEN Occurs(text, chunks[1])
    ELSE LET before == Starts(text, chunks, i - 1, share)
         IN  { p \in Occurs(text, chunks[i]) :
                  \E q \in before : q <= p /\ q + Len(chunks[i - 1]) - p <= share }

InPositionOrder(text, chunks, share) ==
    Len(chunks) = 0 \/ Starts(text, chunks, Len(chunks), share) # {}

\* The index of the input document a chunk carries the metadata of (0: none).
DocumentOf(documents, chunk) ==
    IF \E d \in DOMAIN documents : documents[d].metadata = chunk.metadata
    THEN CHOOSE d \in DOMAIN documents : documents[d].metadata = chunk.metadata
    ELSE 0

\* The texts of the chunks of the d-th document, in output order.
ChunkTextsOf(documents, chunks, d) ==
    LET own == SelectSeq(chunks, LAMBDA c : DocumentOf(documents, c) = d)
    IN  [i \in 1..Len(own) |-> own[i].page_content]

SplitDone == "split_documents" \in Range(executed[1])

\* C11: for chunk_size > 0 and 0 <= chunk_overlap < chunk_size and every
\* document sequence, split_documents succeeds, every chunk it produces has at
\* most chunk_size characters, and the chunks are listed in the order of the
\* input documents and, within a document, in the order of their positions in
\* the document's text.
C11_ChunkLengthAndOrder ==
    SplitDone =>
        LET st == state[1]
            size == Val(st.chunk_size)
        IN  /\ pc[1] = "create_vector_store"
            /\ \A i \in DOMAIN st.chunks :
                   /\ Len(st.chunks[i].page_content) <= size
                   /\ DocumentOf(st.documents, st.chunks[i]) # 0
            /\ \A i, j \in DOMAIN st.chunks :
                   i < j => DocumentOf(st.documents, st.chunks[i])
                              <= DocumentOf(st.documents, st.chunks[j])
            /\ \A d \in DOMAIN st.documents :
                   InPositionOrder(st.documents[d].page_content,
                                   ChunkTextsOf(st.documents, st.chunks, d), size)

\* Two documents were split, each into several chunks, one of them of exactly
\* chunk_size characters, with a positive overlap.
C11_Witness ==
    /\ SplitDone
    /\ Len(state[1].documents) = 2
    /\ Val(state[1].chunk_overlap) > 0
    /\ \A d \in 1..2 : Len(ChunkTextsOf(state[1].documents, state[1].chunks, d)) >= 2
    /\ \E i \in DOMAIN state[1].chunks :
          Len(state[1].chunks[i].page_content) = Val(state[1].chunk_size)

\* The later chunk begins with the last n characters of the earlier one.
SharesExactly(earlier, later, n) ==
    /\ Len(earlier) >= n
    /\ Len(later) >= n
    /\ SubSeq(earlier, Len(earlier) - n + 1, Len(earlier)) = SubSeq(later, 1, n)

HasSeparator(text) == \E i \in DOMAIN text : IsSpace(text[i])

InputFields ==
    { "input_type", "content", "question", "chunk_size", "chunk_overlap",
      "max_answer_length" }

DerivedFields == { "documents", "chunks", "vector_store", "relevant_chunks" }

Last(seq) == seq[Len(seq)]

\* C13: a stage changes no state field but the one it writes, the five stages
\* write five different fields (documents, chunks, vector_store,
\* relevant_chunks, final_answer), none of them an input field, a stage that
\* raises and the return change no field, and input_type, content, question,
\* chunk_size, chunk_overlap and max_answer_length keep the values they were
\* given at the call in every step of a run.
C13_StageFrame ==
    [][ /\ \A m, n \in Range(Nodes) : m # n => Writes(m) # Writes(n)
        /\ \A n \in Range(Nodes) : Writes(n) \notin InputFields
        /\ \A r \in Runs :
              /\ pc[r] # "idle" =>
                     \A f \in InputFields : state'[r][f] = state[r][f]
              /\ (pc[r] # "idle" /\ executed'[r] = executed[r]) =>
                     state'[r] = state[r]
              /\ pc'[r] = "raised" => state'[r] = state[r]
              /\ executed'[r] # executed[r] =>
                     \A f \in DOMAIN state[r] \ { Writes(Last(executed'[r])) } :
                         state'[r][f] = state[r][f]
      ]_vars

\* A run returned after each of the five stages wrote a value into its field,
\* with every input field given.
C13_Witness ==
    /\ pc[1] = "returned"
    /\ executed[1] = Nodes
    /\ Len(state[1].documents) > 0
    /\ Len(state[1].chunks) > 0
    /\ ~IsNone(state[1].vector_store)
    /\ Len(state[1].relevant_chunks) > 0
    /\ state[1].final_answer # ""
    /\ ~IsNone(state[1].max_answer_length)

\* The node that writes a field.
Writer(f) == CHOOSE n \in Range(Nodes) : Writes(n) = f

\* C14: a stage is entered only after the stages that write the derived fields
\* it reads (documents, chunks, vector_store, relevant_chunks) have completed
\* without error; the retrieval stage is never entered while vector_store is
\* None, and the answer stage never before the retrieval stage wrote
\* relevant_chunks.
C14_ReadsAfterWrites ==
    \A r \in Runs :
        \A n \in Range(Nodes) :
            pc[r] = n =>
                /\ IsNone(error[r])
                /\ \A f \in Reads(n) \cap DerivedFields :
                       /\ Writer(f) \in Range(executed[r])
                       /\ f = "vector_store" => ~IsNone(state[r][f])

\* A run is at the retrieval stage, about to read the vector_store the
\* indexing stage wrote for a non-empty list of chunks.
C14_Witness ==
    /\ pc[1] = "search_relevant_chunks"
    /\ ~IsNone(state[1].vector_store)
    /\ Len(state[1].chunks) > 0
    /\ Len(chroma_db) > 0


====
